---- MODULE Spec2Model ----
(***************************************************************************)
(* A model of the join-string crate (src/src/lib.rs): a Joiner captures a  *)
(* cursor and a separator; into_string, write_fmt, write_io and the        *)
(* Display and Debug implementations traverse the cursor and write the     *)
(* elements, interspersed with the separator, to a sink.  DisplayIter      *)
(* adapts a cursor of string-like elements, wrapping each element it       *)
(* yields in DisplayWrapper.                                               *)
(*                                                                         *)
(* A text is a sequence of code points; a byte sink holds a sequence of    *)
(* bytes.  An element is a string value with an identity (its index in the *)
(* source collection).  A sink write either accepts the whole piece or     *)
(* reports an error after accepting some prefix of it.                     *)
(***************************************************************************)
EXTENDS Integers, Sequences, FiniteSets, TLC

\* most elements in the source collection
MaxLen == 2
\* widest width a caller's format spec asks of Display ({:w}); 0 is a plain {}
MaxWidth == 1
\* most calls made on a DisplayIter, and most on a clone of it
MaxCalls == 3

\* the texts of elements and separators: the empty text, "a" (one byte in UTF-8),
\* U+00FC (two bytes in UTF-8) and the two together
Texts == {<<>>, <<97>>, <<252>>, <<97, 252>>}

Sources == UNION {[1..k -> Texts] : k \in 0..MaxLen}

None == <<>>

Some(x) == <<x>>

Take(s, n) == SubSeq(s, 1, n)

VARIABLES
    elements,   \* the caller's source collection: a sequence of texts
    separator,  \* the caller's separator text
    owner,      \* who holds the cursor: "none", "caller", "joiner" (moved in), "borrow" (&mut)
    kind,       \* how the Joiner was built: "display" (join) or "str" (join_str)
    iter,       \* the cursor: how many elements of the source it has yielded
    sep,        \* Joiner.sep
    pc,         \* position in the running operation
    call,       \* the running (or last) operation
    width,      \* the width of the Formatter handed to Display::fmt or Debug::fmt
    local,      \* the clone of the cursor Display::fmt or Debug::fmt traverses
    item,       \* the element just pulled (Option)
    out,        \* what the sink has accepted during this operation
    ret,        \* the operation's return value
    sinkErr,    \* the error the sink reported during this operation (Option)
    pulled,     \* the cursor's answers during this operation: element index, 0 for None
    emitted,    \* the indices of the elements written during this operation
    start,      \* the cursor's position when the operation began
    shown,      \* this Joiner's last complete Display rendering before this operation (Option)
    ref,        \* the first complete rendering of the source by a join() Joiner (Option)
    spent,      \* an into_string had completed on the cursor this Joiner was built over
    adapter,    \* a DisplayIter over a double-ended cursor of the source
    source,     \* a second cursor of the source, given the calls the adapter is given
    yielded,    \* the adapter's answers, in call order
    expected,   \* the second cursor's answers, in call order
    copy,       \* a clone of the adapter (Option)
    copyOf,     \* the adapter when it was cloned (Option)
    replay      \* the clone's answers, in call order

itervars == <<adapter, source, yielded, expected, copy, copyOf, replay>>

joinvars == <<owner, kind, iter, sep, pc, call, width, local, item,
              out, ret, sinkErr, pulled, emitted, start, shown, ref, spent>>

vars == <<elements, separator, joinvars, itervars>>

opvars == <<pc, call, width, local, item, out, ret, sinkErr, pulled, emitted, start>>

\* what no operation of a Joiner touches
inputs == <<elements, separator, itervars>>

----------------------------------------------------------------------------
(* Values *)

\* a string value: the element at index i of the source, or the separator (id 0)
Str(i, t) == [id |-> i, text |-> t]

Running == [tag |-> "running", err |-> ""]

Ok == [tag |-> "Ok", err |-> ""]

Err(e) == [tag |-> "Err", err |-> e]

Returned == [tag |-> "String", err |-> ""]

\* DisplayWrapper(value): a tuple struct of one field
DisplayWrapper(value) == <<value>>

\* DisplayWrapper::as_ref: self.0.as_ref()
DisplayWrapper_as_ref(self) == self[1]

\* <str as Display>::fmt, Formatter::pad with no precision: the text, then
\* spaces up to the width
str_fmt(s, w) ==
    IF Len(s.text) < w
    THEN s.text \o [i \in 1..(w - Len(s.text)) |-> 32]
    ELSE s.text

\* the wrapped string written as Debug writes it, in quotes
DisplayWrapper_fmt_quoted(self, w) == <<34>> \o str_fmt(DisplayWrapper_as_ref(self), w) \o <<34>>

\* DisplayWrapper's Display::fmt: self.0.as_ref().fmt(f)
DisplayWrapper_fmt(self, w) == str_fmt(DisplayWrapper_as_ref(self), w)

\* Display::fmt of an element or separator of a Joiner of kind k
Display_fmt(k, v, w) == IF k = "str" THEN DisplayWrapper_fmt(v, w) ELSE str_fmt(v, w)

\* <str as Debug>::fmt: the text in double quotes (no character of Texts is
\* escaped), written piece by piece with no padding
str_Debug_fmt(s) == <<34>> \o s.text \o <<34>>

\* #[derive(Debug)] of DisplayWrapper: f.debug_tuple("DisplayWrapper").field(&self.0).finish()
DisplayWrapper_Debug_fmt(self) ==
    <<68, 105, 115, 112, 108, 97, 121, 87, 114, 97, 112, 112, 101, 114, 40>>
    \o str_Debug_fmt(self[1]) \o <<41>>

\* Debug::fmt of an element of a Joiner of kind k
Debug_fmt(k, v) == IF k = "str" THEN DisplayWrapper_Debug_fmt(v) ELSE str_Debug_fmt(v)

\* the operations that traverse a clone of the Joiner's cursor
Cloning == {"fmt", "debug"}

\* the source cursor's next(): a slice iterator over the elements
Iter_next(pos) ==
    IF pos < Len(elements)
    THEN [item |-> Some(Str(pos + 1, elements[pos + 1])), iter |-> pos + 1]
    ELSE [item |-> None, iter |-> pos]

\* DisplayIter::next
DisplayIter_next(pos) ==
    LET r == Iter_next(pos)
    IN  IF r.item # None
        THEN [item |-> Some(DisplayWrapper(r.item[1])), iter |-> r.iter]
        ELSE [item |-> None, iter |-> r.iter]

\* self.iter.next() of a Joiner of kind k
Joiner_next(k, pos) == IF k = "str" THEN DisplayIter_next(pos) ELSE Iter_next(pos)

\* the identity of a pulled element
ItemId(k, v) == IF k = "str" THEN DisplayWrapper_as_ref(v).id ELSE v.id

\* what a pull is logged as: the element's index, 0 for None
PullId(k, r) == IF r.item = None THEN 0 ELSE ItemId(k, r.item[1])

\* one byte per code point (c as u8) instead of UTF-8
Utf8CharAsU8(c) == <<c>>

\* str::as_bytes of one code point (UTF-8, code points below 2048)
Utf8Char(c) == IF c < 128 THEN <<c>> ELSE <<192 + (c \div 64), 128 + (c % 64)>>

RECURSIVE Utf8(_)
\* str::as_bytes
Utf8(t) == IF t = <<>> THEN <<>> ELSE Utf8Char(Head(t)) \o Utf8(Tail(t))

\* the errors a sink of the operation c can report
SinkErrors(c) ==
    CASE c = "write_io" -> {"BrokenPipe", "StorageFull"}
      [] c = "into_string" -> {}
      [] OTHER -> {"fmt::Error"}

\* what one write of piece to the sink of operation c can do: accept it all, or
\* report an error after accepting its first n units
Outcomes(c, piece) ==
    {[ok |-> TRUE, n |-> Len(piece), err |-> ""]}
    \cup {[ok |-> FALSE, n |-> n, err |-> e] : n \in 0..Len(piece), e \in SinkErrors(c)}

RECURSIVE FromUtf8(_)
\* String::from_utf8: the text a byte sequence encodes, None when it encodes none
FromUtf8(b) ==
    IF b = <<>> THEN Some(<<>>)
    ELSE IF Head(b) < 128
         THEN LET r == FromUtf8(Tail(b))
              IN  IF r = None THEN None ELSE Some(<<Head(b)>> \o r[1])
         ELSE IF Head(b) >= 192 /\ Head(b) < 224 /\ Len(b) >= 2
                 /\ b[2] >= 128 /\ b[2] < 192
              THEN LET r == FromUtf8(Tail(Tail(b)))
                   IN  IF r = None THEN None
                       ELSE Some(<<(Head(b) - 192) * 64 + (b[2] - 128)>> \o r[1])
              ELSE None

\* the text a sink of operation c holds, None when its bytes are no text
SinkText(c, o) == IF c = "write_io" THEN FromUtf8(o) ELSE Some(o)

----------------------------------------------------------------------------
(* The sequence adapter over a double-ended cursor *)

\* a slice iterator over the elements: front of them yielded from the front,
\* back of them from the back
SliceIter(front, back) == [front |-> front, back |-> back]

\* the element at index i of the source
Element(i) == Str(i, elements[i])

\* self.iter.len()
SliceIter_len(c) == Len(elements) - c.front - c.back

\* self.iter.size_hint()
SliceIter_size_hint(c) == <<SliceIter_len(c), Some(SliceIter_len(c))>>

\* self.iter.count()
SliceIter_count(c) == SliceIter_len(c)

\* self.iter.next()
SliceIter_next(c) ==
    IF SliceIter_len(c) > 0
    THEN [item |-> Some(Element(c.front + 1)), iter |-> SliceIter(c.front + 1, c.back)]
    ELSE [item |-> None, iter |-> c]

\* self.iter.next_back()
SliceIter_next_back(c) ==
    IF SliceIter_len(c) > 0
    THEN [item |-> Some(Element(Len(elements) - c.back)),
          iter |-> SliceIter(c.front, c.back + 1)]
    ELSE [item |-> None, iter |-> c]

\* self.iter.nth(n): skips n elements; a cursor with no more than n is emptied
SliceIter_nth(c, n) ==
    IF n < SliceIter_len(c)
    THEN [item |-> Some(Element(c.front + n + 1)),
          iter |-> SliceIter(c.front + n + 1, c.back)]
    ELSE [item |-> None, iter |-> SliceIter(Len(elements) - c.back, c.back)]

\* self.iter.nth_back(n)
SliceIter_nth_back(c, n) ==
    IF n < SliceIter_len(c)
    THEN [item |-> Some(Element(Len(elements) - c.back - n)),
          iter |-> SliceIter(c.front, c.back + n + 1)]
    ELSE [item |-> None, iter |-> SliceIter(c.front, Len(elements) - c.front)]

\* self.iter.last()
SliceIter_last(c) == SliceIter_next_back(c).item

\* Option::map(DisplayWrapper)
Option_map_DisplayWrapper(o) == IF o = None THEN None ELSE Some(DisplayWrapper(o[1]))

\* DisplayIter::new: Self { iter: elements.into_iter() }
DisplayIter_new == [iter |-> SliceIter(0, 0)]

\* DisplayIter::next on the struct
DisplayIter_Iterator_next(self) ==
    LET r == SliceIter_next(self.iter)
    IN  IF r.item # None
        THEN [item |-> Some(DisplayWrapper(r.item[1])), self |-> [iter |-> r.iter]]
        ELSE [item |-> None, self |-> [iter |-> r.iter]]

\* DisplayIter::last
DisplayIter_last(self) ==
    LET last == SliceIter_last(self.iter)
    IN  IF last # None THEN Some(DisplayWrapper(last[1])) ELSE None

\* DisplayIter::count
DisplayIter_count(self) == SliceIter_count(self.iter)

\* DisplayIter::nth
DisplayIter_nth(self, n) ==
    LET r == SliceIter_nth(self.iter, n)
    IN  [item |-> Option_map_DisplayWrapper(r.item), self |-> [iter |-> r.iter]]

\* DisplayIter::size_hint
DisplayIter_size_hint(self) == SliceIter_size_hint(self.iter)

\* ExactSizeIterator::len of DisplayIter
DisplayIter_len(self) == SliceIter_len(self.iter)

\* DisplayIter::next_back
DisplayIter_next_back(self) ==
    LET r == SliceIter_next_back(self.iter)
    IN  IF r.item # None
        THEN [item |-> Some(DisplayWrapper(r.item[1])), self |-> [iter |-> r.iter]]
        ELSE [item |-> None, self |-> [iter |-> r.iter]]

\* nth_back answering as nth does, from the front
DisplayIter_nth_back_as_nth(self, n) ==
    LET r == SliceIter_nth(self.iter, n)
    IN  IF r.item # None
        THEN [item |-> Some(DisplayWrapper(r.item[1])), self |-> [iter |-> r.iter]]
        ELSE [item |-> None, self |-> [iter |-> r.iter]]

\* DisplayIter::nth_back
DisplayIter_nth_back(self, n) ==
    LET r == SliceIter_nth_back(self.iter, n)
    IN  IF r.item # None
        THEN [item |-> Some(DisplayWrapper(r.item[1])), self |-> [iter |-> r.iter]]
        ELSE [item |-> None, self |-> [iter |-> r.iter]]

\* DisplayIter::clone: Self { iter: self.iter.clone() }
DisplayIter_clone(self) == [iter |-> self.iter]

----------------------------------------------------------------------------
(* The caller: cursors and Joiners *)

Idle == pc \in {"idle", "done"}

Reset ==
    /\ pc' = "idle"
    /\ call' = "none"
    /\ width' = 0
    /\ local' = 0
    /\ item' = None
    /\ out' = <<>>
    /\ ret' = Running
    /\ sinkErr' = None
    /\ pulled' = <<>>
    /\ emitted' = <<>>
    /\ start' = 0

Init ==
    /\ elements \in Sources
    /\ separator \in Texts
    /\ owner = "none"
    /\ kind = "display"
    /\ iter = 0
    /\ sep = None
    /\ pc = "idle"
    /\ call = "none"
    /\ width = 0
    /\ local = 0
    /\ item = None
    /\ out = <<>>
    /\ ret = Running
    /\ sinkErr = None
    /\ pulled = <<>>
    /\ emitted = <<>>
    /\ start = 0
    /\ shown = None
    /\ ref = None
    /\ spent = FALSE
    /\ adapter = DisplayIter_new
    /\ source = SliceIter(0, 0)
    /\ yielded = <<>>
    /\ expected = <<>>
    /\ copy = None
    /\ copyOf = None
    /\ replay = <<>>

\* let mut iter = elements.iter(): a fresh cursor over the source
NewCursor ==
    /\ Idle
    /\ owner \in {"none", "caller"}
    /\ owner' = "caller"
    /\ iter' = 0
    /\ spent' = FALSE
    /\ kind' = "display"
    /\ sep' = None
    /\ shown' = None
    /\ Reset
    /\ UNCHANGED <<inputs, ref>>

\* a Joiner built over a cursor of its own, from the source's first element again
NewJoinerRewound(k, s, borrowed) ==
    /\ Idle
    /\ owner = "caller"
    /\ owner' = IF borrowed THEN "borrow" ELSE "joiner"
    /\ kind' = k
    /\ sep' = s
    /\ iter' = 0
    /\ shown' = None
    /\ spent' = (spent \/ (call = "into_string" /\ pc = "done"))
    /\ Reset
    /\ UNCHANGED <<inputs, ref>>

\* Joiner { iter, sep }: the cursor is moved in, or mutably borrowed
NewJoiner(k, s, borrowed) ==
    /\ Idle
    /\ owner = "caller"
    /\ owner' = IF borrowed THEN "borrow" ELSE "joiner"
    /\ kind' = k
    /\ sep' = s
    /\ shown' = None
    /\ spent' = (spent \/ (call = "into_string" /\ pc = "done"))
    /\ Reset
    /\ UNCHANGED <<inputs, iter, ref>>

\* Join::join and the function join
join == \E borrowed \in BOOLEAN : NewJoiner("display", Str(0, separator), borrowed)

\* Join::join_str and the function join_str
join_str ==
    \E borrowed \in BOOLEAN :
        NewJoiner("str", DisplayWrapper(Str(0, separator)), borrowed)

\* the entry of an operation c on the Joiner, with a Formatter of width w
Begin(c, w) ==
    /\ Idle
    /\ pc' = "first"
    /\ call' = c
    /\ width' = w
    /\ local' = IF c \in Cloning THEN iter ELSE 0
    /\ item' = None
    /\ out' = <<>>
    /\ ret' = Running
    /\ sinkErr' = None
    /\ pulled' = <<>>
    /\ emitted' = <<>>
    /\ start' = iter
    /\ shown' = IF call = "fmt" /\ pc = "done" /\ ret = Ok
                THEN Some([width |-> width, text |-> out, at |-> start])
                ELSE shown
    /\ UNCHANGED <<inputs, owner, kind, iter, sep, ref, spent>>

\* Joiner::into_string: let mut buffer = String::new(); self.write_fmt(&mut buffer)
into_string == owner \in {"joiner", "borrow"} /\ Begin("into_string", 0)

\* String::from(Joiner): value.into_string()
String_from == owner \in {"joiner", "borrow"} /\ Begin("into_string", 0)

\* Joiner::write_fmt with a caller's text sink
write_fmt == owner \in {"joiner", "borrow"} /\ Begin("write_fmt", 0)

\* Joiner::write_io with a caller's byte sink
write_io == owner \in {"joiner", "borrow"} /\ Begin("write_io", 0)

\* Display::fmt of a Joiner whose cursor is Clone (a borrowed cursor is not)
Display ==
    /\ owner = "joiner"
    /\ \E w \in 0..MaxWidth : Begin("fmt", w)

\* Debug::fmt of a Joiner whose cursor is Clone
Debug ==
    /\ owner = "joiner"
    /\ \E w \in 0..MaxWidth : Begin("debug", w)

----------------------------------------------------------------------------
(* The traversals *)

\* the value the operation c hands back for write_fmt's result r
RetOf(c, r) == IF c = "into_string" THEN Returned ELSE r

\* the operation goes on at p
Continue(p) ==
    /\ pc' = p
    /\ UNCHANGED <<ret, owner, ref>>

\* the operation returns r, its sink holding o: a consuming operation drops the
\* Joiner (a borrowed cursor stays with the caller), Display::fmt keeps it
Finish(r, o) ==
    /\ pc' = "done"
    /\ ret' = RetOf(call, r)
    /\ owner' = IF call \in Cloning THEN owner
                ELSE IF owner = "borrow" THEN "caller" ELSE "none"
    /\ ref' = IF ref = None /\ kind = "display" /\ start = 0 /\ width = 0 /\ r = Ok
                /\ call # "debug"
              THEN SinkText(call, o)
              ELSE ref

\* the sink's error dropped: a failed write returns Ok(())
EmitErrorDropped(piece, id, p) ==
    \E oc \in Outcomes(call, piece) :
        LET o == out \o Take(piece, oc.n)
        IN  /\ out' = o
            /\ IF oc.ok
               THEN /\ emitted' = IF id = 0 THEN emitted ELSE Append(emitted, id)
                    /\ sinkErr' = sinkErr
                    /\ Continue(p)
               ELSE /\ emitted' = emitted
                    /\ sinkErr' = Some(oc.err)
                    /\ Finish(Ok, o)

\* the write's result ignored: after a failed write the traversal goes on at p
EmitGoesOn(piece, id, p) ==
    \E oc \in Outcomes(call, piece) :
        /\ out' = out \o Take(piece, oc.n)
        /\ emitted' = IF id = 0 \/ ~oc.ok THEN emitted ELSE Append(emitted, id)
        /\ sinkErr' = IF oc.ok THEN sinkErr ELSE Some(oc.err)
        /\ Continue(p)

\* write!(writer, ...)? and item.fmt(f)?: one write of piece; the element id (0 for
\* none) is written with it; an error returns at once, success goes on at p
Emit(piece, id, p) ==
    \E oc \in Outcomes(call, piece) :
        LET o == out \o Take(piece, oc.n)
        IN  /\ out' = o
            /\ IF oc.ok
               THEN /\ emitted' = IF id = 0 THEN emitted ELSE Append(emitted, id)
                    /\ sinkErr' = sinkErr
                    /\ Continue(p)
               ELSE /\ emitted' = emitted
                    /\ sinkErr' = Some(oc.err)
                    /\ Finish(Err(oc.err), o)

\* an exhausted cursor answered with the separator instead of nothing
PullSepOnNone(p) ==
    LET r == Joiner_next(kind, iter)
        o == IF r.item = None THEN out \o Display_fmt(kind, sep, 0) ELSE out
    IN  /\ iter' = r.iter
        /\ item' = r.item
        /\ pulled' = Append(pulled, PullId(kind, r))
        /\ out' = o
        /\ IF r.item = None THEN Finish(Ok, o) ELSE Continue(p)
        /\ UNCHANGED <<emitted, sinkErr, local>>

\* self.iter.next(): None returns Ok(()), Some(_) goes on at p
Pull(p) ==
    LET r == Joiner_next(kind, iter)
    IN  /\ iter' = r.iter
        /\ item' = r.item
        /\ pulled' = Append(pulled, PullId(kind, r))
        /\ IF r.item = None THEN Finish(Ok, out) ELSE Continue(p)
        /\ UNCHANGED <<out, emitted, sinkErr, local>>

\* the item, then the separator: a trailing separator instead of a leading one
SepItemTrailing(s, i) == i \o s

\* "{}{}": the separator, then the item
SepItem(s, i) == s \o i

\* write_fmt: if let Some(first) = self.iter.next()
write_fmt_first ==
    /\ pc = "first"
    /\ call \in {"into_string", "write_fmt"}
    /\ Pull("wfirst")
    /\ UNCHANGED <<inputs, kind, sep, call, width, start, shown, spent>>

\* write_fmt: write!(writer, "{}", first)?
write_fmt_emit_first ==
    /\ pc = "wfirst"
    /\ call \in {"into_string", "write_fmt"}
    /\ Emit(Display_fmt(kind, item[1], 0), ItemId(kind, item[1]), "next")
    /\ UNCHANGED <<inputs, kind, sep, call, width, start, shown, spent, iter, local, item, pulled>>

\* write_fmt: for item in self.iter
write_fmt_next ==
    /\ pc = "next"
    /\ call \in {"into_string", "write_fmt"}
    /\ Pull("witem")
    /\ UNCHANGED <<inputs, kind, sep, call, width, start, shown, spent>>

\* write_fmt writing first again in the loop: write!(writer, "{}{}", self.sep, first)?
write_fmt_emit_item_first ==
    /\ pc = "witem"
    /\ call \in {"into_string", "write_fmt"}
    /\ Emit(SepItem(Display_fmt(kind, sep, 0), elements[start + 1]), start + 1, "next")
    /\ UNCHANGED <<inputs, kind, sep, call, width, start, shown, spent, iter, local, item, pulled>>

\* write_fmt leaving out an element whose text is empty, and its separator
write_fmt_emit_item_skip_empty ==
    /\ pc = "witem"
    /\ call \in {"into_string", "write_fmt"}
    /\ Emit(IF Display_fmt(kind, item[1], 0) = <<>>
            THEN <<>>
            ELSE SepItem(Display_fmt(kind, sep, 0), Display_fmt(kind, item[1], 0)),
            ItemId(kind, item[1]), "next")
    /\ UNCHANGED <<inputs, kind, sep, call, width, start, shown, spent, iter, local, item, pulled>>

\* write_fmt: write!(writer, "{}{}", self.sep, item)?
write_fmt_emit_item ==
    /\ pc = "witem"
    /\ call \in {"into_string", "write_fmt"}
    /\ Emit(SepItem(Display_fmt(kind, sep, 0), Display_fmt(kind, item[1], 0)),
            ItemId(kind, item[1]), "next")
    /\ UNCHANGED <<inputs, kind, sep, call, width, start, shown, spent, iter, local, item, pulled>>

\* write_io: if let Some(first) = self.iter.next()
write_io_first ==
    /\ pc = "first"
    /\ call = "write_io"
    /\ Pull("wfirst")
    /\ UNCHANGED <<inputs, kind, sep, call, width, start, shown, spent>>

\* write_io: write!(writer, "{}", first)?
write_io_emit_first ==
    /\ pc = "wfirst"
    /\ call = "write_io"
    /\ Emit(Utf8(Display_fmt(kind, item[1], 0)), ItemId(kind, item[1]), "next")
    /\ UNCHANGED <<inputs, kind, sep, call, width, start, shown, spent, iter, local, item, pulled>>

\* write_io: for item in self.iter
write_io_next ==
    /\ pc = "next"
    /\ call = "write_io"
    /\ Pull("witem")
    /\ UNCHANGED <<inputs, kind, sep, call, width, start, shown, spent>>

\* write_io: write!(writer, "{}{}", self.sep, item)?
write_io_emit_item ==
    /\ pc = "witem"
    /\ call = "write_io"
    /\ Emit(Utf8(SepItem(Display_fmt(kind, sep, 0), Display_fmt(kind, item[1], 0))),
            ItemId(kind, item[1]), "next")
    /\ UNCHANGED <<inputs, kind, sep, call, width, start, shown, spent, iter, local, item, pulled>>

\* Display::fmt advancing the Joiner's own cursor instead of a clone of it
PullOwn(p) ==
    LET r == Joiner_next(kind, iter)
    IN  /\ iter' = r.iter
        /\ item' = r.item
        /\ pulled' = Append(pulled, PullId(kind, r))
        /\ IF r.item = None THEN Finish(Ok, out) ELSE Continue(p)
        /\ UNCHANGED <<out, emitted, sinkErr, local>>

\* every pull made on a new clone of the Joiner's cursor
PullCloneAnew(p) ==
    LET r == Joiner_next(kind, iter)
    IN  /\ local' = r.iter
        /\ item' = r.item
        /\ pulled' = Append(pulled, PullId(kind, r))
        /\ IF r.item = None THEN Finish(Ok, out) ELSE Continue(p)
        /\ UNCHANGED <<out, emitted, sinkErr, iter>>

\* iter.next() on the clone Display::fmt and Debug::fmt made of the cursor: None
\* returns Ok(()), Some(_) goes on at p
PullClone(p) ==
    LET r == Joiner_next(kind, local)
    IN  /\ local' = r.iter
        /\ item' = r.item
        /\ pulled' = Append(pulled, PullId(kind, r))
        /\ IF r.item = None THEN Finish(Ok, out) ELSE Continue(p)
        /\ UNCHANGED <<out, emitted, sinkErr, iter>>

\* Display::fmt: let mut iter = self.iter.clone(); if let Some(first) = iter.next()
fmt_first ==
    /\ pc = "first"
    /\ call = "fmt"
    /\ PullClone("wfirst")
    /\ UNCHANGED <<inputs, kind, sep, call, width, start, shown, spent>>

\* Display::fmt: first.fmt(f)?
fmt_emit_first ==
    /\ pc = "wfirst"
    /\ call = "fmt"
    /\ Emit(Display_fmt(kind, item[1], width), ItemId(kind, item[1]), "next")
    /\ UNCHANGED <<inputs, kind, sep, call, width, start, shown, spent, iter, local, item, pulled>>

\* Display::fmt: for item in iter
fmt_next ==
    /\ pc = "next"
    /\ call = "fmt"
    /\ PullClone("wsep")
    /\ UNCHANGED <<inputs, kind, sep, call, width, start, shown, spent>>

\* Display::fmt: self.sep.fmt(f)?
fmt_emit_sep ==
    /\ pc = "wsep"
    /\ call = "fmt"
    /\ Emit(Display_fmt(kind, sep, width), 0, "witem")
    /\ UNCHANGED <<inputs, kind, sep, call, width, start, shown, spent, iter, local, item, pulled>>

\* Display::fmt: item.fmt(f)?
fmt_emit_item ==
    /\ pc = "witem"
    /\ call = "fmt"
    /\ Emit(Display_fmt(kind, item[1], width), ItemId(kind, item[1]), "next")
    /\ UNCHANGED <<inputs, kind, sep, call, width, start, shown, spent, iter, local, item, pulled>>

\* Debug::fmt: let mut iter = self.iter.clone(); if let Some(first) = iter.next()
debug_first ==
    /\ pc = "first"
    /\ call = "debug"
    /\ PullClone("wfirst")
    /\ UNCHANGED <<inputs, kind, sep, call, width, start, shown, spent>>

\* Debug::fmt: first.fmt(f)?
debug_emit_first ==
    /\ pc = "wfirst"
    /\ call = "debug"
    /\ Emit(Debug_fmt(kind, item[1]), ItemId(kind, item[1]), "next")
    /\ UNCHANGED <<inputs, kind, sep, call, width, start, shown, spent, iter, local, item, pulled>>

\* Debug::fmt: for item in iter
debug_next ==
    /\ pc = "next"
    /\ call = "debug"
    /\ PullClone("wsep")
    /\ UNCHANGED <<inputs, kind, sep, call, width, start, shown, spent>>

\* Debug::fmt: self.sep.fmt(f)?
debug_emit_sep ==
    /\ pc = "wsep"
    /\ call = "debug"
    /\ Emit(Display_fmt(kind, sep, width), 0, "witem")
    /\ UNCHANGED <<inputs, kind, sep, call, width, start, shown, spent, iter, local, item, pulled>>

\* Debug::fmt: item.fmt(f)?
debug_emit_item ==
    /\ pc = "witem"
    /\ call = "debug"
    /\ Emit(Debug_fmt(kind, item[1]), ItemId(kind, item[1]), "next")
    /\ UNCHANGED <<inputs, kind, sep, call, width, start, shown, spent, iter, local, item, pulled>>

Next ==
    \/ NewCursor
    \/ join
    \/ join_str
    \/ into_string
    \/ String_from
    \/ write_fmt
    \/ write_io
    \/ Display
    \/ write_fmt_first
    \/ write_fmt_emit_first
    \/ write_fmt_next
    \/ write_fmt_emit_item
    \/ write_io_first
    \/ write_io_emit_first
    \/ write_io_next
    \/ write_io_emit_item
    \/ fmt_first
    \/ fmt_emit_first
    \/ fmt_next
    \/ fmt_emit_sep
    \/ fmt_emit_item
    \/ Debug
    \/ debug_first
    \/ debug_emit_first
    \/ debug_next
    \/ debug_emit_sep
    \/ debug_emit_item

Spec == Init /\ [][Next]_vars

\* the steps of a running traversal
Step ==
    \/ write_fmt_first
    \/ write_fmt_emit_first
    \/ write_fmt_next
    \/ write_fmt_emit_item
    \/ write_io_first
    \/ write_io_emit_first
    \/ write_io_next
    \/ write_io_emit_item
    \/ fmt_first
    \/ fmt_emit_first
    \/ fmt_next
    \/ fmt_emit_sep
    \/ fmt_emit_item
    \/ debug_first
    \/ debug_emit_first
    \/ debug_next
    \/ debug_emit_sep
    \/ debug_emit_item

\* the sources and separators the traversals are followed to their end on: texts
\* that are empty or of several bytes
LiveTexts == {<<>>, <<97, 252>>}

InitLive ==
    /\ Init
    /\ separator \in {<<>>, <<252>>}
    /\ \A i \in 1..Len(elements) : elements[i] \in LiveTexts

\* a traversal is a call that runs on its caller's thread: once entered, each of
\* its steps is taken (the cursor and the sink answer every call made on them)
SpecLive == InitLive /\ [][Next]_vars /\ WF_vars(Step)

----------------------------------------------------------------------------
(* The calls on a DisplayIter *)

\* a call answered r by the adapter and e by the second cursor of the source
Answer(r, e) ==
    /\ Len(yielded) < MaxCalls
    /\ adapter' = r.self
    /\ source' = e.iter
    /\ yielded' = Append(yielded, r.item)
    /\ expected' = Append(expected, e.item)
    /\ UNCHANGED <<elements, separator, joinvars, copy, copyOf, replay>>

\* adapter.next()
Iterator_next == Answer(DisplayIter_Iterator_next(adapter), SliceIter_next(source))

\* adapter.nth(n)
Iterator_nth ==
    \E n \in 0..MaxLen : Answer(DisplayIter_nth(adapter, n), SliceIter_nth(source, n))

\* adapter.next_back()
DoubleEnded_next_back ==
    Answer(DisplayIter_next_back(adapter), SliceIter_next_back(source))

\* adapter.nth_back(n)
DoubleEnded_nth_back ==
    \E n \in 0..MaxLen :
        Answer(DisplayIter_nth_back(adapter, n), SliceIter_nth_back(source, n))

\* let copy = adapter.clone()
Clone_clone ==
    /\ copy = None
    /\ copy' = Some(DisplayIter_clone(adapter))
    /\ copyOf' = Some(adapter)
    /\ UNCHANGED <<elements, separator, joinvars, adapter, source, yielded, expected, replay>>

\* copy.next()
Clone_next ==
    /\ copy # None
    /\ Len(replay) < MaxCalls
    /\ LET r == DisplayIter_Iterator_next(copy[1])
       IN  /\ copy' = Some(r.self)
           /\ replay' = Append(replay, r.item)
    /\ UNCHANGED <<elements, separator, joinvars, adapter, source, yielded, expected, copyOf>>

NextIter ==
    \/ Iterator_next
    \/ Iterator_nth
    \/ DoubleEnded_next_back
    \/ DoubleEnded_nth_back
    \/ Clone_clone
    \/ Clone_next

\* a DisplayIter and a second cursor over each source; no Joiner, no separator
InitIter == Init /\ separator = <<>>

SpecIter == InitIter /\ [][NextIter]_vars

----------------------------------------------------------------------------
(* Properties *)

\* the texts the cursor had left when the operation began
Rest == SubSeq(elements, start + 1, Len(elements))

RECURSIVE SumLen(_)
SumLen(S) == IF S = <<>> THEN 0 ELSE Len(Head(S)) + SumLen(Tail(S))

\* where the i-th text of S begins in S joined by D: after i-1 texts and i-1 separators
Offset(S, D, i) == SumLen(Take(S, i - 1)) + (i - 1) * Len(D)

\* t is S's texts in order, one D between each two neighbours, nothing before,
\* nothing after
Interleaved(t, S, D) ==
    /\ Len(t) = SumLen(S) + (Len(S) - 1) * Len(D)
    /\ \A i \in 1..Len(S) :
          SubSeq(t, Offset(S, D, i) + 1, Offset(S, D, i) + Len(S[i])) = S[i]
    /\ \A i \in 1..(Len(S) - 1) :
          SubSeq(t, Offset(S, D, i) + Len(S[i]) + 1, Offset(S, D, i + 1)) = D

ConsumingCalls == {"into_string", "write_fmt", "write_io"}

\* C1: into_string on join(S, D), S of n >= 1 elements, returns S's texts in
\* order with exactly n-1 copies of D's text, one between each two consecutive
\* elements and none before the first or after the last (for n = 1, the
\* element's text alone).
C1_SeparatorOnlyBetween ==
    (pc = "done" /\ call = "into_string" /\ kind = "display" /\ Len(Rest) >= 1)
        => /\ ret = Returned
           /\ Interleaved(out, Rest, separator)
           /\ (Len(Rest) = 1 => out = Rest[1])

C1_Witness ==
    /\ pc = "done"
    /\ call = "into_string"
    /\ kind = "display"
    /\ Len(Rest) = 2
    /\ Rest[1] = <<97>>
    /\ Rest[2] = <<252>>
    /\ separator = <<97, 252>>
    /\ out = <<97, 97, 252, 252>>

\* C2: on a cursor that yields nothing (an empty source, a None or Err value)
\* into_string returns the empty string whatever the separator, and write_fmt
\* and write_io return Ok(()) having written nothing to the sink.
C2_EmptyIsEmpty ==
    (call \in ConsumingCalls /\ start = Len(elements) /\ pc # "idle")
        => /\ out = <<>>
           /\ sinkErr = None
           /\ emitted = <<>>
           /\ pc = "done" => ret = (IF call = "into_string" THEN Returned ELSE Ok)

C2_Witness ==
    /\ pc = "done"
    /\ call = "write_io"
    /\ elements = <<>>
    /\ separator = <<97, 252>>
    /\ ret = Ok
    /\ out = <<>>

RECURSIVE Joined(_, _)
\* the texts of S with D between them
Joined(S, D) ==
    IF S = <<>> THEN <<>>
    ELSE IF Len(S) = 1 THEN S[1]
    ELSE S[1] \o D \o Joined(Tail(S), D)

\* the separator as join and join_str store it in a Joiner of kind k
SepOf(k) == IF k = "str" THEN DisplayWrapper(Str(0, separator)) ELSE Str(0, separator)

\* C3: with a duplicable cursor, Display renderings of one Joiner with one format
\* spec all give the same text, none of them moves the Joiner's cursor or changes
\* its separator, and an into_string after them still returns the joined text of
\* every element the Joiner had.
C3_DisplayLeavesJoiner ==
    /\ (call = "fmt" /\ pc # "idle")
          => /\ iter = start
             /\ sep = SepOf(kind)
             /\ owner = "joiner"
    /\ (call = "fmt" /\ pc = "done" /\ ret = Ok /\ shown # None)
          => (shown[1].width = width => out = shown[1].text)
    /\ (call = "into_string" /\ pc = "done" /\ shown # None)
          => /\ start = shown[1].at
             /\ out = Joined(SubSeq(elements, shown[1].at + 1, Len(elements)), separator)

C3_Witness ==
    /\ call = "into_string"
    /\ pc = "done"
    /\ shown # None
    /\ shown[1].text = <<97, 252, 252>>
    /\ elements = <<<<97>>, <<252>>>>
    /\ out = <<97, 252, 252>>

C3_WitnessTwice ==
    /\ call = "fmt"
    /\ pc = "done"
    /\ ret = Ok
    /\ shown # None
    /\ shown[1].width = width
    /\ Len(elements) = 2
    /\ out # <<>>

\* C4: write_fmt and write_io return an error exactly when a write to the sink
\* failed, and the error they return is the one the sink reported.
C4_FailsIffSinkFails ==
    (call \in {"write_fmt", "write_io"} /\ pc = "done")
        => /\ ret.tag \in {"Ok", "Err"}
           /\ (ret = Ok <=> sinkErr = None)
           /\ (ret.tag = "Err" => sinkErr = Some(ret.err))

C4_Witness ==
    /\ call = "write_io"
    /\ pc = "done"
    /\ ret = Err("StorageFull")
    /\ sinkErr = Some("StorageFull")
    /\ Len(elements) = 2
    /\ Len(emitted) = 1

\* the complete renderings that are compared: the source from its first element,
\* every write accepted, the elements written as Display writes them
Complete ==
    pc = "done" /\ start = 0 /\ ret \in {Ok, Returned} /\ ref # None /\ call # "debug"

\* C5 as stated: write_fmt's text, write_io's bytes decoded, Display's text and
\* into_string's string are equal for one sequence and separator, whatever the
\* format spec Display is used with.
C5_AllModesAgree ==
    (Complete /\ kind = "display") => SinkText(call, out) = ref

\* C5, amended: write_fmt's text, write_io's bytes decoded, into_string's string
\* and the text of Display used with a plain {} (no width) are equal for one
\* sequence and separator.
C5_ModesAgreePlainSpec ==
    (Complete /\ kind = "display" /\ width = 0) => SinkText(call, out) = ref

C5_Witness ==
    /\ Complete
    /\ kind = "display"
    /\ call = "write_io"
    /\ elements = <<<<252>>, <<97, 252>>>>
    /\ separator = <<252>>
    /\ ref = Some(<<252, 252, 97, 252>>)
    /\ Len(out) = 7

C5_WitnessDisplay ==
    /\ Complete
    /\ kind = "display"
    /\ call = "fmt"
    /\ width = 0
    /\ Len(elements) = 2
    /\ ref # Some(<<>>)

\* C6: join_str renders what join renders on the same strings: the DisplayIter
\* and DisplayWrapper around the elements and the separator add, drop and reorder
\* nothing.
C6_JoinStrAsJoin ==
    (Complete /\ kind = "str" /\ width = 0) => SinkText(call, out) = ref

C6_Witness ==
    /\ Complete
    /\ kind = "str"
    /\ call = "into_string"
    /\ elements = <<<<97>>, <<252>>>>
    /\ separator = <<97, 252>>
    /\ out = <<97, 97, 252, 252>>

\* C7: an into_string leaves the cursor it was given with no element; a second
\* join over the same borrowed cursor then renders the empty string, and a join
\* over a fresh cursor of the same source renders the full text.
C7_ConsumesCursor ==
    (call = "into_string" /\ pc = "done")
        => /\ iter = Len(elements)
           /\ spent => out = <<>>
           /\ start = 0 => out = Joined(elements, separator)

C7_Witness ==
    /\ call = "into_string"
    /\ pc = "done"
    /\ spent
    /\ owner = "caller"
    /\ elements = <<<<97>>, <<252>>>>
    /\ start = 2
    /\ out = <<>>

\* longest text that is split
MaxSplitLen == 3

SplitTexts == UNION {[1..k -> {97, 252}] : k \in 0..MaxSplitLen}

\* where d first occurs in t, 0 when nowhere
Find(t, d) ==
    LET at == {i \in 1..(Len(t) - Len(d) + 1) : SubSeq(t, i, i + Len(d) - 1) = d}
    IN  IF at = {} THEN 0 ELSE CHOOSE i \in at : \A j \in at : i <= j

RECURSIVE Split(_, _)
\* str::split: t cut at every occurrence of d, left to right; an empty d cuts
\* at every boundary, the two ends included
Split(t, d) ==
    IF d = <<>>
    THEN <<<<>>>> \o [i \in 1..Len(t) |-> <<t[i]>>] \o <<<<>>>>
    ELSE IF Find(t, d) = 0
         THEN <<t>>
         ELSE <<Take(t, Find(t, d) - 1)>>
              \o Split(SubSeq(t, Find(t, d) + Len(d), Len(t)), d)

\* C8: into_string(join(split(text, D), D)) is text.
C8_SplitRoundTrip ==
    (call = "into_string" /\ pc = "done" /\ start = 0)
        => \A t \in SplitTexts : Split(t, separator) = elements => out = t

C8_Witness ==
    /\ call = "into_string"
    /\ pc = "done"
    /\ start = 0
    /\ separator = <<252>>
    /\ elements = Split(<<97, 252, 97>>, <<252>>)
    /\ Len(elements) = 2
    /\ out = <<97, 252, 97>>

\* s is the beginning of t
IsPrefix(s, t) == Len(s) <= Len(t) /\ Take(t, Len(s)) = s

\* everything a complete traversal hands the sink of the operation
FullOut == IF call = "write_io" THEN Utf8(Joined(Rest, separator)) ELSE Joined(Rest, separator)

\* a step inside write_fmt or write_io
C9_Step ==
    (call' \in {"write_fmt", "write_io"} /\ pc' \notin {"idle", "first"})
        => /\ IsPrefix(out, out')
           /\ sinkErr # None
                 => /\ out' = out
                    /\ iter' = iter
                    /\ pulled' = pulled
                    /\ emitted' = emitted
                    /\ sinkErr' = sinkErr

\* C9: once a write to the sink has failed in write_fmt or write_io, the
\* operation has returned: no later write, no later pull; what the sink accepted
\* is never taken back and is a prefix of the full joined text.
C9_StopsAtFailure ==
    /\ []((call \in {"write_fmt", "write_io"} /\ sinkErr # None)
            => (pc = "done" /\ IsPrefix(out, FullOut)))
    /\ [][C9_Step]_vars

C9_Witness ==
    /\ call = "write_io"
    /\ pc = "done"
    /\ sinkErr = Some("BrokenPipe")
    /\ elements = <<<<97, 252>>, <<97>>>>
    /\ iter = 1
    /\ out = <<97, 195>>

NotNone(x) == x # 0

\* the elements the cursor yielded during the operation
Pulls == SelectSeq(pulled, NotNone)

\* the cursor the operation advances
Cursor == IF call \in Cloning THEN local ELSE iter

\* C10: within one operation the cursor only moves forward: the elements are
\* pulled in source order, each at most once, and written in the order pulled,
\* each at most once.
C10_ForwardOnly ==
    pc # "idle"
        => /\ Cursor >= start
           /\ \A i, j \in DOMAIN Pulls : i < j => Pulls[i] < Pulls[j]
           /\ Len(emitted) <= Len(Pulls)
           /\ \A i \in DOMAIN emitted : emitted[i] = Pulls[i]

C10_Witness ==
    /\ pc = "done"
    /\ call = "fmt"
    /\ Len(elements) = 2
    /\ pulled = <<1, 2, 0>>
    /\ emitted = <<1, 2>>
    /\ local = 2
    /\ start = 0

\* the wrapped form of a source cursor's answer
WrappedAnswer(o) == IF o = None THEN None ELSE <<<<o[1]>>>>

\* the i-th answer of a forward traversal of what the cursor c has left
Remaining(c, i) ==
    IF i <= Len(elements) - c.front - c.back
    THEN <<<<Str(c.front + i, elements[c.front + i])>>>>
    ELSE None

\* the adapter agrees with the source cursor given the same calls
C11_Views ==
    /\ adapter.iter = source
    /\ Len(yielded) = Len(expected)
    /\ \A i \in 1..Len(yielded) : yielded[i] = WrappedAnswer(expected[i])
    /\ DisplayIter_size_hint(adapter) = SliceIter_size_hint(source)
    /\ DisplayIter_len(adapter) = SliceIter_len(source)
    /\ DisplayIter_count(adapter) = SliceIter_count(source)
    /\ copy # None =>
        \A i \in 1..Len(replay) : replay[i] = Remaining(copyOf[1].iter, i)

\* a step that makes or pulls the clone leaves the adapter where it was
C11_CloneStep ==
    (copy' # copy \/ replay' # replay) => (adapter' = adapter /\ yielded' = yielded)

\* C11: a DisplayIter and the source cursor it wraps, given the same next,
\* next_back, nth and nth_back calls, are at the same position of the same end
\* and have answered alike, the adapter's answers being the source's wrapped in
\* DisplayWrapper; size_hint, len and count of the adapter are the source's; a
\* clone of the adapter, pulled, answers with the wrapped elements the adapter
\* had left when it was cloned, in order, then None, and neither cloning nor
\* pulling the clone moves the adapter
C11_TransparentView == []C11_Views /\ [][C11_CloneStep]_vars

\* both ends of a source of two or more elements were taken through the adapter,
\* and a clone of it has been pulled until it answered None
C11_Witness ==
    /\ Len(elements) >= 2
    /\ \E i, j \in 1..Len(yielded) :
        /\ i < j
        /\ yielded[i] = Some(DisplayWrapper(Str(1, elements[1])))
        /\ yielded[j] = Some(DisplayWrapper(Str(Len(elements), elements[Len(elements)])))
    /\ copy # None
    /\ Len(replay) >= 2
    /\ replay[Len(replay)] = None
    /\ replay[1] # None

\* a traversal is running
InTraversal == pc \notin {"idle", "done"}

\* the pulls of the running or last traversal
C12_Pulls ==
    /\ \A i \in 1..(Len(pulled) - 1) : pulled[i] # 0
    /\ Len(pulled) <= Len(Rest) + 1
    /\ (pulled # <<>> /\ pulled[Len(pulled)] = 0) => (pc = "done" /\ ret \in {Ok, Returned})
    /\ (pc = "done" /\ sinkErr = None)
          => /\ Len(pulled) = Len(Rest) + 1
             /\ pulled[Len(pulled)] = 0
             /\ \A i \in 1..Len(Rest) : pulled[i] = start + i
             /\ Rest = <<>> => pulled = <<0>>

\* a step after the cursor has answered None, other than the entry of a new
\* operation, pulls nothing
C12_Step ==
    (pulled # <<>> /\ pulled[Len(pulled)] = 0 /\ pc' \notin {"idle", "first"})
        => (pulled' = pulled /\ iter' = iter /\ local' = local)

\* C12: every traversal (into_string, write_fmt, write_io, Display::fmt,
\* Debug::fmt) over a cursor with n elements left returns; when no write failed
\* it has pulled the cursor n + 1 times, the n elements in order and then the one
\* None (on a cursor with nothing left, that one pull alone); None is only ever
\* the last answer of a traversal, which returns on it and pulls no more
C12_TerminatesAfterNPlusOnePulls ==
    /\ []C12_Pulls
    /\ [][C12_Step]_vars
    /\ InTraversal ~> (pc = "done")

\* a Debug rendering of two elements has returned Ok after three pulls
C12_Witness ==
    /\ pc = "done"
    /\ call = "debug"
    /\ ret = Ok
    /\ kind = "display"
    /\ elements = <<<<97, 252>>, <<>>>>
    /\ separator = <<252>>
    /\ pulled = <<1, 2, 0>>
    /\ out = <<34, 97, 252, 34, 252, 34, 34>>

\* a traversal of an empty source has returned after its one pull
C12_WitnessEmpty ==
    /\ pc = "done"
    /\ call = "write_fmt"
    /\ elements = <<>>
    /\ pulled = <<0>>

====
